---- MODULE Spec2Model ----
(***************************************************************************)
(* Resource-lifetime management beneath the graphics command-submission    *)
(* layer:                                                                  *)
(*   - CommandPool  (gfx/wr/webrender/src/device/gfx/command.rs)           *)
(*   - HeapLinear, Heap, DescriptorCpuPool                                 *)
(*                  (third_party/rust/gfx-backend-dx12/src/descriptors_cpu.rs) *)
(* Every public operation is one action.  A Rust panic (unwrap/expect on   *)
(* None, a failed assert!, an arithmetic overflow in a build with overflow *)
(* checks) is a fatal failure: it is recorded and nothing runs afterwards. *)
(***************************************************************************)
EXTENDS Integers, Sequences, FiniteSets, TLC

\* ------------------------------------------------------------------ bounds
\* Number of CommandPool calls explored in one behaviour.
MaxOps == 6
\* Number of DescriptorCpuPool::alloc_handle calls explored in one behaviour
\* (two full heaps and the start of a third).
MaxPoolAllocs == 130
\* Number of Heap::alloc_handle calls on the lone heap (one past its capacity).
MaxHeapAllocs == 65
\* Largest capacity a HeapLinear is constructed with, and the number of calls
\* (alloc_handle, clear) made on it in one behaviour.
MaxLinearSize == 3
MaxLinearOps == 8
\* Number of CommandPool calls in a behaviour that replays a recording
\* period: S, buffers_to_submit, reset, S with up to three calls in S.
MaxReplayOps == 8

\* ------------------------------------------------------- program constants
\* usize::MAX, the value `0usize - 1` wraps to when overflow checks are off.
\* The code only compares it with a Vec length and uses it as a Vec index;
\* a Vec length never reaches it.  TLC's integers are 32 bits wide,
\* so the largest one stands for it.
USIZE_MAX == 2147483647

\* descriptors_cpu.rs:55
HEAP_SIZE_FIXED == 64

\* descriptors_cpu.rs:65  availability: u64
U64_BITS == 64

VARIABLES
    \* CommandPool fields (command.rs:14-20)
    strategy,         \* CBStrategy: "UseOne" | "AllocateNew"
    command_buffers,  \* Vec<B::CommandBuffer>: sequence of buffer identities
    next_id,          \* usize
    begin,            \* bool
    \* the native allocator behind command_pool: lifecycle state of every
    \* buffer it has allocated, indexed by buffer identity 1..n
    cb_state,
    \* buffers handed out by remove_cmd_buffer and not yet returned
    lent,
    \* TRUE once a call has panicked
    fatal,
    \* TRUE once destroy has consumed the pool
    destroyed,
    \* one record per call made on the pool, in call order
    log,
    \* the device: per-slot address increment it reports, and the number of
    \* native descriptor heaps it has created
    increment_size,
    native_heaps,
    \* a Heap used on its own (descriptors_cpu.rs:60-71)
    heap,
    \* DescriptorCpuPool fields (descriptors_cpu.rs:109-116)
    heaps,            \* Vec<Heap>
    free_list,        \* HashSet<usize>
    \* TRUE once a descriptor allocation has panicked
    desc_fatal,
    \* one record per alloc_handle call: on the lone heap, on the pool
    heap_log,
    pool_log,
    \* a HeapLinear (descriptors_cpu.rs:8-16): its fields, whether a call on
    \* it has panicked, and one record per call made on it
    lin,
    lin_fatal,
    lin_log

cmd_vars == <<strategy, command_buffers, next_id, begin, cb_state, lent, fatal,
              destroyed, log>>

desc_vars == <<increment_size, native_heaps, heap, heaps, free_list, desc_fatal,
               heap_log, pool_log>>

lin_vars == <<lin, lin_fatal, lin_log>>

vars == <<cmd_vars, desc_vars, lin_vars>>

Strategies == {"UseOne", "AllocateNew"}

\* ------------------------------------------------------------ Rust helpers
\* Vec::get_mut(i), 0-based: Some(v[i]) is <<v[i]>>, None is <<>>.
get_mut(v, i) == IF i >= 0 /\ i < Len(v) THEN <<v[i + 1]>> ELSE <<>>

\* usize `a - b`: the result and whether it overflowed.
usize_sub(a, b) ==
    IF a >= b THEN [val |-> a - b, overflow |-> FALSE]
    ELSE [val |-> USIZE_MAX - (b - a) + 1, overflow |-> TRUE]

\* usize::max
usize_max(a, b) == IF a >= b THEN a ELSE b

\* Vec::remove(0) / Vec::insert(0, x)
vec_remove0(v) == SubSeq(v, 2, Len(v))

\* slip: the list is replaced by the returned buffer
vec_insert0_mut(v, x) == <<x>>

vec_insert0(v, x) == <<x>> \o v

\* --------------------------------------------- backend command buffers
\* Lifecycle of a native command buffer: "NotBegun" (allocated), "Recording",
\* "Finished"; "Invalid" once the allocator it came from was destroyed.  A
\* buffer identity that is not in DOMAIN st is unallocated.
allocate_one(st) == Append(st, "NotBegun")
begin_primary(st, b) == [st EXCEPT ![b] = "Recording"]
finish(st, b) == [st EXCEPT ![b] = "Finished"]
\* HalCommandPool::reset: every buffer of the allocator returns to its
\* initial state.
pool_reset(st) == [b \in DOMAIN st |-> "NotBegun"]

\* Device::destroy_command_pool: every buffer of the allocator, whoever
\* holds it, becomes invalid.
destroy_command_pool(st) == [b \in DOMAIN st |-> "Invalid"]

\* One effect a call had on a buffer, with the buffer's state just before.
Ev(k, b, pre) == [k |-> k, b |-> b, pre |-> pre]

\* ------------------------------------------------- CommandPool::buffer_mut
\* slip: the index of the buffer to begin, not of the previous one
finish_index_mut(nid) == nid

\* command.rs:51  self.next_id.max(1) - 1
finish_index(nid) == usize_max(nid, 1) - 1

\* slip: the previous buffer is never finished
should_finish_mut2(nid, inside_render_pass) == FALSE

\* slip: the render-pass test is dropped
should_finish_mut(nid, inside_render_pass) == nid # 0

\* command.rs:52  self.next_id != 0 && !inside_render_pass
should_finish(nid, inside_render_pass) == nid # 0 /\ ~inside_render_pass

\* slip: the list is never grown
needs_allocation_mut2(len, nid) == FALSE

\* slip: off by one, a buffer is allocated although index next_id exists
needs_allocation_mut(len, nid) == len - 1 <= nid

\* command.rs:61  self.command_buffers.len() <= next_id
needs_allocation(len, nid) == len <= nid

\* slip: off by one, a second buffer is allocated
use_one_needs_allocation_mut(len) == len < 2

\* command.rs:36  self.command_buffers.len() < 1
use_one_needs_allocation(len) == len < 1

\* slip: the begun-flag is ignored
use_one_should_begin_mut(b) == TRUE

\* command.rs:43  if self.begin
use_one_should_begin(b) == b

\* Result of a call: the fields after it, whether it completed, what it
\* returned (identities, their states on return, index of the buffer in the
\* list) and its effects in program order.
Outcome(cbs, st, nid, beg, ok, ret, idx, ev) ==
    [cbs |-> cbs, st |-> st, nid |-> nid, beg |-> beg, ok |-> ok,
     ret |-> ret, retst |-> [i \in 1..Len(ret) |-> st[ret[i]]],
     idx |-> idx, ev |-> ev]

\* command.rs:35-49
buffer_mut_UseOne ==
    LET need == use_one_needs_allocation(Len(command_buffers))
        st1 == IF need THEN allocate_one(cb_state) ELSE cb_state
        cbs == IF need THEN Append(command_buffers, Len(st1)) ELSE command_buffers
        ev1 == IF need THEN <<Ev("alloc", Len(st1), "Unallocated")>> ELSE <<>>
        b == get_mut(cbs, 0)[1]
        doBegin == use_one_should_begin(begin)
        st2 == IF doBegin THEN begin_primary(st1, b) ELSE st1
        ev2 == IF doBegin THEN Append(ev1, Ev("begin", b, st1[b])) ELSE ev1
    IN Outcome(cbs, st2, next_id, IF doBegin THEN FALSE ELSE begin, TRUE, <<b>>, 0, ev2)

\* command.rs:50-73.  overflow_checks: whether the build panics on the
\* usize underflow of line 57 (debug) or wraps (release).
buffer_mut_AllocateNew(inside_render_pass, overflow_checks) ==
    LET prev == get_mut(command_buffers, finish_index(next_id))
        doFin == prev # <<>> /\ should_finish(next_id, inside_render_pass)
        st1 == IF doFin THEN finish(cb_state, prev[1]) ELSE cb_state
        ev1 == IF doFin THEN <<Ev("finish", prev[1], cb_state[prev[1]])>> ELSE <<>>
        sub == usize_sub(next_id, 1)
    IN IF inside_render_pass /\ sub.overflow /\ overflow_checks
       THEN Outcome(command_buffers, st1, next_id, begin, FALSE, <<>>, -1, ev1)
       ELSE
        LET nid == IF inside_render_pass THEN sub.val ELSE next_id
            need == needs_allocation(Len(command_buffers), nid)
            st2 == IF need THEN allocate_one(st1) ELSE st1
            cbs == IF need THEN Append(command_buffers, Len(st2)) ELSE command_buffers
            ev2 == IF need THEN Append(ev1, Ev("alloc", Len(st2), "Unallocated")) ELSE ev1
            got == get_mut(cbs, nid)
        IN IF got = <<>>
           THEN Outcome(cbs, st2, next_id, begin, FALSE, <<>>, -1, ev2)
           ELSE
            LET b == got[1]
                st3 == IF ~inside_render_pass THEN begin_primary(st2, b) ELSE st2
                ev3 == IF ~inside_render_pass THEN Append(ev2, Ev("begin", b, st2[b])) ELSE ev2
                nid2 == IF ~inside_render_pass THEN next_id + 1 ELSE next_id
            IN Outcome(cbs, st3, nid2, begin, TRUE, <<b>>, nid, ev3)

\* command.rs:33-75
buffer_mut_result(inside_render_pass, overflow_checks) ==
    IF strategy = "UseOne" THEN buffer_mut_UseOne
    ELSE buffer_mut_AllocateNew(inside_render_pass, overflow_checks)

\* ------------------------------------------ CommandPool::buffers_to_submit
\* command.rs:81  &self.command_buffers
submit_all(cbs) == cbs

\* slip: the whole list is returned
submit_slice_mut(cbs, nid) == cbs

\* command.rs:85  &self.command_buffers[0..self.next_id]
submit_slice(cbs, nid) == SubSeq(cbs, 1, nid)

\* command.rs:79-82
buffers_to_submit_UseOne ==
    LET got == get_mut(command_buffers, 0)
    IN IF got = <<>>
       THEN Outcome(command_buffers, cb_state, next_id, begin, FALSE, <<>>, -1, <<>>)
       ELSE Outcome(command_buffers, finish(cb_state, got[1]), next_id, begin, TRUE,
                    submit_all(command_buffers), 0,
                    <<Ev("finish", got[1], cb_state[got[1]])>>)

\* command.rs:83-86
buffers_to_submit_AllocateNew(overflow_checks) ==
    LET sub == usize_sub(next_id, 1)
        got == get_mut(command_buffers, sub.val)
    IN IF (sub.overflow /\ overflow_checks) \/ got = <<>>
       THEN Outcome(command_buffers, cb_state, next_id, begin, FALSE, <<>>, -1, <<>>)
       ELSE Outcome(command_buffers, finish(cb_state, got[1]), next_id, begin, TRUE,
                    submit_slice(command_buffers, next_id), sub.val,
                    <<Ev("finish", got[1], cb_state[got[1]])>>)

\* command.rs:77-88
buffers_to_submit_result(overflow_checks) ==
    IF strategy = "UseOne" THEN buffers_to_submit_UseOne
    ELSE buffers_to_submit_AllocateNew(overflow_checks)

\* -------------------------------------- CommandPool::create_command_buffer
\* slip: a buffer is allocated on every call
prewarm_needs_allocation_mut(cbs) == TRUE

\* command.rs:91  self.command_buffers.is_empty()
prewarm_needs_allocation(cbs) == Len(cbs) = 0

\* command.rs:90-97
create_command_buffer_result ==
    LET need == prewarm_needs_allocation(command_buffers)
        st1 == IF need THEN allocate_one(cb_state) ELSE cb_state
        cbs == IF need THEN Append(command_buffers, Len(st1)) ELSE command_buffers
        ev1 == IF need THEN <<Ev("alloc", Len(st1), "Unallocated")>> ELSE <<>>
    IN Outcome(cbs, st1, next_id, begin, TRUE, <<>>, -1, ev1)

\* ---------------------------------------------------------------- device
\* Per-slot increments the device may report.
Strides == {1, 32}

\* Base address of the k-th native heap the device creates (k = 0, 1, ...):
\* heaps do not overlap.
start_cpu_descriptor(k) == (k + 1) * 65536

\* -------------------------------------------------------------------- Heap
\* u64 bit mask as a function from bit position to 0/1.
all_ones == [i \in 0..(U64_BITS - 1) |-> 1]

\* slip: the highest set bit is taken (leading, not trailing, zeros)
trailing_zeros_mut(a) ==
    IF \A i \in DOMAIN a : a[i] = 0 THEN U64_BITS
    ELSE CHOOSE i \in DOMAIN a : a[i] = 1 /\ \A j \in DOMAIN a : j > i => a[j] = 0

\* u64::trailing_zeros: position of the lowest set bit, 64 for zero.
trailing_zeros(a) ==
    IF \A i \in DOMAIN a : a[i] = 0 THEN U64_BITS
    ELSE CHOOSE i \in DOMAIN a : a[i] = 1 /\ \A j \in DOMAIN a : j < i => a[j] = 0

\* slip: the mask is left as it was
xor_bit_mut(a, slot) == a

\* descriptors_cpu.rs:91  availability ^= 1 << slot
xor_bit(a, slot) == [a EXCEPT ![slot] = 1 - @]

\* descriptors_cpu.rs:74-84.  k: how many native heaps exist already.
Heap_new(k, stride) ==
    [handle_size |-> stride, availability |-> all_ones,
     start |-> start_cpu_descriptor(k), raw |-> "alive"]

\* slip: the polarity of the mask is confused (0 is occupied, not free)
Heap_is_full_mut(h) == \E i \in DOMAIN h.availability : h.availability[i] = 0

\* descriptors_cpu.rs:98-100
Heap_is_full(h) == \A i \in DOMAIN h.availability : h.availability[i] = 0

\* descriptors_cpu.rs:86-96: the heap after the call, whether the assert
\* held, the slot and the address returned.
Heap_alloc_handle(h) ==
    LET slot == trailing_zeros(h.availability)
    IN IF ~(slot < HEAP_SIZE_FIXED)
       THEN [heap |-> h, ok |-> FALSE, slot |-> slot, ptr |-> 0]
       ELSE [heap |-> [h EXCEPT !.availability = xor_bit(h.availability, slot)],
             ok |-> TRUE, slot |-> slot,
             ptr |-> h.start + h.handle_size * slot]

\* descriptors_cpu.rs:102-104  self.raw.destroy(): the native heap is
\* released, the fields of the allocator stay as they are.
Heap_destroy(h) == [h EXCEPT !.raw = "destroyed"]

\* ------------------------------------------------------- DescriptorCpuPool
\* descriptors_cpu.rs:148-152  every heap of the pool is destroyed.
pool_destroy(hs) == [i \in 1..Len(hs) |-> Heap_destroy(hs[i])]

\* slip: a heap that became full stays in the spare-capacity set
pool_retires_mut(h) == FALSE

\* descriptors_cpu.rs:139  if heap.is_full()
pool_retires(h) == Heap_is_full(h)

\* descriptors_cpu.rs:129-135: the heap ids `free_list.iter().next()` may
\* yield (HashSet order is unspecified), or the id of the heap to create.
pool_candidates(hs, fl) == IF fl # {} THEN fl ELSE {Len(hs)}

\* descriptors_cpu.rs:128-144 for the heap id chosen.
pool_alloc_handle(heap_id) ==
    LET grow == free_list = {}
        hs1 == IF grow THEN Append(heaps, Heap_new(native_heaps, increment_size)) ELSE heaps
        fl1 == IF grow THEN free_list \cup {heap_id} ELSE free_list
        r == Heap_alloc_handle(hs1[heap_id + 1])
        hs2 == [hs1 EXCEPT ![heap_id + 1] = r.heap]
        fl2 == IF r.ok /\ pool_retires(r.heap) THEN fl1 \ {heap_id} ELSE fl1
    IN [heaps |-> hs2, free_list |-> fl2, ok |-> r.ok, created |-> grow,
        heap_id |-> heap_id, slot |-> r.slot, ptr |-> r.ptr]

\* -------------------------------------------------------------- HeapLinear
\* descriptors_cpu.rs:19-29.  k: how many native heaps exist already.
HeapLinear_new(k, size, stride) ==
    [handle_size |-> stride, num |-> 0, size |-> size, raw |-> "alive",
     start |-> start_cpu_descriptor(k)]

\* slip: off by one, a heap of capacity C takes C + 1 handles
HeapLinear_is_full_mut(h) == h.num > h.size

\* descriptors_cpu.rs:42-44
HeapLinear_is_full(h) == h.num >= h.size

\* slip: the cursor is not advanced
HeapLinear_advance_mut(n) == n

\* descriptors_cpu.rs:35  self.num += 1
HeapLinear_advance(n) == n + 1

\* descriptors_cpu.rs:31-40: the heap after the call, whether the assert
\* held, the slot and the address returned.
HeapLinear_alloc_handle(h) ==
    IF HeapLinear_is_full(h)
    THEN [heap |-> h, ok |-> FALSE, slot |-> h.num, ptr |-> 0]
    ELSE LET slot == h.num
         IN [heap |-> [h EXCEPT !.num = HeapLinear_advance(h.num)], ok |-> TRUE,
             slot |-> slot, ptr |-> h.start + h.handle_size * slot]

\* slip: clear leaves the cursor where it is
HeapLinear_clear_mut(h) == h

\* descriptors_cpu.rs:46-48
HeapLinear_clear(h) == [h EXCEPT !.num = 0]

\* descriptors_cpu.rs:50-52  self.raw.destroy()
HeapLinear_destroy(h) == [h EXCEPT !.raw = "destroyed"]

\* A HeapLinear of the given capacity, created by the device after the lone
\* Heap, with no call made on it yet.
LinIdle(size) ==
    /\ lin = HeapLinear_new(1, size, increment_size)
    /\ lin_fatal = FALSE
    /\ lin_log = <<>>

DescIdle ==
    /\ native_heaps = 2
    /\ heap = Heap_new(0, increment_size)
    /\ heaps = <<>>
    /\ free_list = {}
    /\ desc_fatal = FALSE
    /\ heap_log = <<>>
    /\ pool_log = <<>>

\* --------------------------------------------------------------- actions
LogEntry(op, inside_render_pass, r) ==
    [op |-> op, inside |-> inside_render_pass, ok |-> r.ok, ret |-> r.ret,
     retst |-> r.retst, idx |-> r.idx, ev |-> r.ev]

CanCall == ~fatal /\ ~destroyed /\ Len(log) < MaxOps

Apply(op, inside_render_pass, r) ==
    /\ command_buffers' = r.cbs
    /\ cb_state' = r.st
    /\ next_id' = r.nid
    /\ begin' = r.beg
    /\ fatal' = ~r.ok
    /\ log' = Append(log, LogEntry(op, inside_render_pass, r))
    /\ UNCHANGED <<strategy, lent, destroyed>>
    /\ UNCHANGED <<desc_vars, lin_vars>>

\* command.rs:23-31.  `new` hardwires AllocateNew; its strategy parameter is
\* commented out, so the strategy is a construction-time choice.
Init ==
    /\ strategy \in Strategies
    /\ command_buffers = <<>>
    /\ next_id = 0
    /\ begin = TRUE
    /\ cb_state = <<>>
    /\ lent = <<>>
    /\ fatal = FALSE
    /\ destroyed = FALSE
    /\ log = <<>>
    /\ increment_size = 1
    /\ DescIdle
    /\ LinIdle(0)

buffer_mut ==
    /\ CanCall
    /\ \E inside_render_pass \in BOOLEAN, overflow_checks \in BOOLEAN :
         Apply("buffer_mut", inside_render_pass,
               buffer_mut_result(inside_render_pass, overflow_checks))

buffers_to_submit ==
    /\ CanCall
    /\ \E overflow_checks \in BOOLEAN :
         Apply("buffers_to_submit", FALSE, buffers_to_submit_result(overflow_checks))

create_command_buffer ==
    /\ CanCall
    /\ Apply("create_command_buffer", FALSE, create_command_buffer_result)

\* command.rs:99-101.  Vec::remove(0) panics on an empty Vec.
remove_cmd_buffer ==
    /\ CanCall
    /\ IF Len(command_buffers) = 0
       THEN /\ fatal' = TRUE
            /\ log' = Append(log, LogEntry("remove_cmd_buffer", FALSE,
                    Outcome(command_buffers, cb_state, next_id, begin, FALSE, <<>>, -1, <<>>)))
            /\ UNCHANGED <<command_buffers, lent>>
       ELSE /\ command_buffers' = vec_remove0(command_buffers)
            /\ lent' = Append(lent, command_buffers[1])
            /\ log' = Append(log, LogEntry("remove_cmd_buffer", FALSE,
                    Outcome(command_buffers, cb_state, next_id, begin, TRUE,
                            <<command_buffers[1]>>, 0, <<>>)))
            /\ UNCHANGED fatal
    /\ UNCHANGED <<strategy, next_id, begin, cb_state, destroyed>>
    /\ UNCHANGED <<desc_vars, lin_vars>>

\* command.rs:103-105.  The caller gives back a buffer it holds.
return_cmd_buffer ==
    /\ CanCall
    /\ \E i \in 1..Len(lent) :
        /\ command_buffers' = vec_insert0(command_buffers, lent[i])
        /\ lent' = SubSeq(lent, 1, i - 1) \o SubSeq(lent, i + 1, Len(lent))
        /\ log' = Append(log, LogEntry("return_cmd_buffer", FALSE,
                Outcome(command_buffers, cb_state, next_id, begin, TRUE, <<lent[i]>>, 0, <<>>)))
    /\ UNCHANGED <<strategy, next_id, begin, cb_state, fatal, destroyed>>
    /\ UNCHANGED <<desc_vars, lin_vars>>

\* slip: the cursor is left where it is
reset_next_id_mut(nid) == nid

\* command.rs:109  self.next_id = 0
reset_next_id(nid) == 0

\* slip: the begun-flag is not re-armed
reset_begin_mut(b) == b

\* command.rs:110  self.begin = true
reset_begin(b) == TRUE

\* command.rs:108-110
reset_effect ==
    /\ cb_state' = pool_reset(cb_state)
    /\ next_id' = reset_next_id(next_id)
    /\ begin' = reset_begin(begin)
    /\ log' = Append(log, LogEntry("reset", FALSE,
            Outcome(command_buffers, cb_state, next_id, begin, TRUE, <<>>, -1, <<>>)))
    /\ UNCHANGED <<strategy, command_buffers, lent, fatal, destroyed>>
    /\ UNCHANGED <<desc_vars, lin_vars>>

\* command.rs:107-111
reset ==
    /\ CanCall
    /\ reset_effect

\* command.rs:113-115.  destroy takes the pool by value: the native
\* allocator is handed to the device, the list is dropped with the pool and
\* no call can follow.  Buffers the caller holds after remove_cmd_buffer
\* stay in its hands, invalid.
destroy ==
    /\ CanCall
    /\ destroyed' = TRUE
    /\ cb_state' = destroy_command_pool(cb_state)
    /\ command_buffers' = <<>>
    /\ log' = Append(log, LogEntry("destroy", FALSE,
            Outcome(command_buffers, cb_state, next_id, begin, TRUE, <<>>, -1, <<>>)))
    /\ UNCHANGED <<strategy, next_id, begin, lent, fatal>>
    /\ UNCHANGED <<desc_vars, lin_vars>>

Next ==
    \/ buffer_mut
    \/ buffers_to_submit
    \/ create_command_buffer
    \/ remove_cmd_buffer
    \/ return_cmd_buffer
    \/ reset
    \/ destroy

Spec == Init /\ [][Next]_vars

\* ------------------------------------------- descriptor allocators alone
\* A lone Heap (descriptors_cpu.rs:74-84) and an empty DescriptorCpuPool
\* (descriptors_cpu.rs:119-126) on a device reporting one of Strides.
InitDesc ==
    /\ strategy = "AllocateNew"
    /\ command_buffers = <<>>
    /\ next_id = 0
    /\ begin = TRUE
    /\ cb_state = <<>>
    /\ lent = <<>>
    /\ fatal = FALSE
    /\ destroyed = FALSE
    /\ log = <<>>
    /\ increment_size \in Strides
    /\ DescIdle
    /\ LinIdle(0)

\* Heap::alloc_handle on the lone heap (descriptors_cpu.rs:86-96)
Heap_alloc ==
    /\ ~desc_fatal
    /\ Len(heap_log) < MaxHeapAllocs
    /\ LET r == Heap_alloc_handle(heap)
       IN /\ heap' = r.heap
          /\ desc_fatal' = ~r.ok
          /\ heap_log' = Append(heap_log, [ok |-> r.ok, slot |-> r.slot, ptr |-> r.ptr])
    /\ UNCHANGED <<increment_size, native_heaps, heaps, free_list, pool_log>>
    /\ UNCHANGED <<cmd_vars, lin_vars>>

\* DescriptorCpuPool::alloc_handle (descriptors_cpu.rs:128-144)
Pool_alloc ==
    /\ ~desc_fatal
    /\ Len(pool_log) < MaxPoolAllocs
    /\ \E heap_id \in pool_candidates(heaps, free_list) :
         LET r == pool_alloc_handle(heap_id)
         IN /\ heaps' = r.heaps
            /\ free_list' = r.free_list
            /\ native_heaps' = IF r.created THEN native_heaps + 1 ELSE native_heaps
            /\ desc_fatal' = ~r.ok
            /\ pool_log' = Append(pool_log,
                    [ok |-> r.ok, created |-> r.created, heap_id |-> r.heap_id,
                     slot |-> r.slot, ptr |-> r.ptr])
    /\ UNCHANGED <<increment_size, heap, heap_log>>
    /\ UNCHANGED <<cmd_vars, lin_vars>>

\* Heap::destroy on the lone heap (descriptors_cpu.rs:102-104).  The heap
\* is borrowed, not consumed: calls may follow, another destroy included,
\* which finds the native heap destroyed already and leaves it so.
Heap_release ==
    /\ ~desc_fatal
    /\ heap' = Heap_destroy(heap)
    /\ UNCHANGED <<increment_size, native_heaps, heaps, free_list, desc_fatal,
                   heap_log, pool_log>>
    /\ UNCHANGED <<cmd_vars, lin_vars>>

\* DescriptorCpuPool::destroy (descriptors_cpu.rs:148-152): every heap the
\* pool holds at the call, whether destroyed before or not.
Pool_release ==
    /\ ~desc_fatal
    /\ heaps' = pool_destroy(heaps)
    /\ UNCHANGED <<increment_size, native_heaps, heap, free_list, desc_fatal,
                   heap_log, pool_log>>
    /\ UNCHANGED <<cmd_vars, lin_vars>>

NextDesc ==
    \/ Heap_alloc
    \/ Pool_alloc
    \/ Heap_release
    \/ Pool_release

SpecDesc == InitDesc /\ [][NextDesc]_vars

\* ------------------------------------------------------- HeapLinear alone
\* A new CommandPool (command.rs:23-31), not used.
CmdIdle ==
    /\ strategy = "AllocateNew"
    /\ command_buffers = <<>>
    /\ next_id = 0
    /\ begin = TRUE
    /\ cb_state = <<>>
    /\ lent = <<>>
    /\ fatal = FALSE
    /\ destroyed = FALSE
    /\ log = <<>>

\* HeapLinear::new (descriptors_cpu.rs:19-29) with a capacity the caller
\* chooses, on a device reporting one of Strides.
InitLinear ==
    /\ CmdIdle
    /\ increment_size \in Strides
    /\ DescIdle
    /\ \E size \in 0..MaxLinearSize : LinIdle(size)

LinCanCall == ~lin_fatal /\ Len(lin_log) < MaxLinearOps

\* HeapLinear::alloc_handle (descriptors_cpu.rs:31-40)
Linear_alloc ==
    /\ LinCanCall
    /\ LET r == HeapLinear_alloc_handle(lin)
       IN /\ lin' = r.heap
          /\ lin_fatal' = ~r.ok
          /\ lin_log' = Append(lin_log,
                [op |-> "alloc_handle", ok |-> r.ok, slot |-> r.slot, ptr |-> r.ptr,
                 full |-> HeapLinear_is_full(r.heap)])
    /\ UNCHANGED <<cmd_vars, desc_vars>>

\* HeapLinear::clear (descriptors_cpu.rs:46-48)
Linear_clear ==
    /\ LinCanCall
    /\ lin' = HeapLinear_clear(lin)
    /\ lin_log' = Append(lin_log,
            [op |-> "clear", ok |-> TRUE, slot |-> 0, ptr |-> 0,
             full |-> HeapLinear_is_full(HeapLinear_clear(lin))])
    /\ UNCHANGED lin_fatal
    /\ UNCHANGED <<cmd_vars, desc_vars>>

\* HeapLinear::destroy (descriptors_cpu.rs:50-52).  The heap is borrowed,
\* not consumed: calls may follow, another destroy included.
Linear_release ==
    /\ ~lin_fatal
    /\ lin' = HeapLinear_destroy(lin)
    /\ UNCHANGED <<lin_fatal, lin_log>>
    /\ UNCHANGED <<cmd_vars, desc_vars>>

NextLinear ==
    \/ Linear_alloc
    \/ Linear_clear
    \/ Linear_release

SpecLinear == InitLinear /\ [][NextLinear]_vars

\* ------------------------------------------------- any one of the objects
\* The command pool, the free-list heaps and the HeapLinear share no state
\* (each is exclusively owned).  SpecAny is the union of the three
\* specifications above: a behaviour starts as one of them does and makes
\* calls on that object only.
InitAny == Init \/ InitDesc \/ InitLinear

OnlyCmd ==
    /\ heap_log = <<>> /\ pool_log = <<>> /\ lin_log = <<>>
    /\ heap.raw = "alive" /\ lin.raw = "alive"
    /\ increment_size = 1 /\ lin.size = 0

OnlyDesc ==
    /\ log = <<>> /\ strategy = "AllocateNew"
    /\ lin_log = <<>> /\ lin.size = 0 /\ lin.raw = "alive"

OnlyLinear ==
    /\ log = <<>> /\ strategy = "AllocateNew"
    /\ heap_log = <<>> /\ pool_log = <<>> /\ heap.raw = "alive"

NextAny ==
    \/ OnlyCmd /\ Next
    \/ OnlyDesc /\ NextDesc
    \/ OnlyLinear /\ NextLinear

SpecAny == InitAny /\ [][NextAny]_vars

\* ------------------------------------------------ replayed recording periods
\* Longer behaviours of the calls a recording period is made of (buffer_mut,
\* buffers_to_submit, reset) on a CommandPool, or of calls on a HeapLinear.
ReplayCanCall == ~fatal /\ ~destroyed /\ Len(log) < MaxReplayOps

replay_buffer_mut ==
    /\ ReplayCanCall
    /\ \E inside_render_pass \in BOOLEAN, overflow_checks \in BOOLEAN :
         Apply("buffer_mut", inside_render_pass,
               buffer_mut_result(inside_render_pass, overflow_checks))

replay_buffers_to_submit ==
    /\ ReplayCanCall
    /\ \E overflow_checks \in BOOLEAN :
         Apply("buffers_to_submit", FALSE, buffers_to_submit_result(overflow_checks))

replay_reset ==
    /\ ReplayCanCall
    /\ reset_effect

InitReplay == Init \/ InitLinear

NextReplay ==
    \/ OnlyCmd /\ replay_buffer_mut
    \/ OnlyCmd /\ replay_buffers_to_submit
    \/ OnlyCmd /\ replay_reset
    \/ OnlyLinear /\ NextLinear

SpecReplay == InitReplay /\ [][NextReplay]_vars

TypeOK ==
    /\ strategy \in Strategies
    /\ next_id \in Nat
    /\ begin \in BOOLEAN
    /\ fatal \in BOOLEAN
    /\ destroyed \in BOOLEAN
    /\ ~(fatal /\ destroyed)
    /\ \A i \in 1..Len(command_buffers) : command_buffers[i] \in 1..Len(cb_state)
    /\ \A i \in 1..Len(lent) : lent[i] \in 1..Len(cb_state)
    /\ \A b \in 1..Len(cb_state) :
        cb_state[b] \in (IF destroyed THEN {"Invalid"}
                         ELSE {"NotBegun", "Recording", "Finished"})
    /\ destroyed => command_buffers = <<>>
    /\ increment_size \in Strides
    /\ native_heaps = 2 + Len(heaps)
    /\ lin.num \in Nat /\ lin.size \in 0..MaxLinearSize
    /\ lin_fatal \in BOOLEAN
    /\ lin.raw \in {"alive", "destroyed"}
    /\ heap.raw \in {"alive", "destroyed"}
    /\ \A i \in 1..Len(heaps) : heaps[i].raw \in {"alive", "destroyed"}
    /\ free_list \subseteq 0..(Len(heaps) - 1)
    /\ desc_fatal \in BOOLEAN
\* ------------------------------------------------------- reading the log
Last == log[Len(log)]

\* No call so far was remove_cmd_buffer or return_cmd_buffer.
NoDetach ==
    \A i \in 1..Len(log) : log[i].op \notin {"remove_cmd_buffer", "return_cmd_buffer"}

\* Number of effects of kind k on buffer b made by calls lo..hi.
CountEv(k, b, lo, hi) ==
    Cardinality({p \in (lo..hi) \X (1..3) :
        /\ p[2] <= Len(log[p[1]].ev)
        /\ log[p[1]].ev[p[2]].k = k
        /\ log[p[1]].ev[p[2]].b = b})

\* Position of the last reset among calls 1..i (0 when there is none).
LastReset(i) ==
    LET rs == {j \in 1..i : log[j].op = "reset"}
    IN IF rs = {} THEN 0 ELSE CHOOSE j \in rs : \A k \in rs : k <= j

\* Buffers begun by calls lo..hi.
Begun(lo, hi) ==
    {b \in 1..Len(cb_state) : CountEv("begin", b, lo, hi) > 0}

IsBufferMut(i, inside_render_pass) ==
    log[i].op = "buffer_mut" /\ log[i].inside = inside_render_pass

\* ----------------------------------------------------------------- C1
\* C1: with only buffer_mut, buffers_to_submit, create_command_buffer and
\* reset called, the buffer a completed buffer_mut returns is never in the
\* Finished state (stated for the strategy `new` selects).
C1_NeverReturnsFinished ==
    (NoDetach /\ strategy = "AllocateNew") =>
        \A i \in 1..Len(log) :
            (log[i].op = "buffer_mut" /\ log[i].ok) => log[i].retst[1] # "Finished"

\* ----------------------------------------------------------------- C2
\* C2: with only buffer_mut, buffers_to_submit, create_command_buffer and
\* reset called, finish is invoked on a buffer only while it is Recording
\* (never on a Finished or a NotBegun buffer); stated for the strategy `new`
\* selects.
C2_FinishOnlyWhileRecording ==
    (NoDetach /\ strategy = "AllocateNew") =>
        \A i \in 1..Len(log) : \A j \in 1..Len(log[i].ev) :
            log[i].ev[j].k = "finish" => log[i].ev[j].pre = "Recording"

\* ----------------------------------------------------------------- C3
\* C3: under AllocateNew, a first-ever buffer_mut(true) completes and
\* returns the buffer at index 0.
C3_FirstInsideCallReturnsSlot0 ==
    (strategy = "AllocateNew" /\ Len(log) >= 1 /\ IsBufferMut(1, TRUE)) =>
        (log[1].ok /\ log[1].idx = 0)

\* ----------------------------------------------------------------- C4
\* C4: under AllocateNew on a fresh pool, three consecutive buffer_mut(false)
\* calls complete and return the buffers at indices 0, 1, 2, pairwise
\* distinct; a buffers_to_submit that follows completes and returns exactly
\* those three in that order, each begun once and finished once by then.
C4_ThreeOutsideThenSubmit ==
    strategy = "AllocateNew" =>
        /\ \A n \in 1..3 :
            (Len(log) >= n /\ \A i \in 1..n : IsBufferMut(i, FALSE)) =>
                /\ log[n].ok
                /\ log[n].idx = n - 1
                /\ \A i \in 1..(n - 1) : log[i].ret # log[n].ret
        /\ (/\ Len(log) >= 4
            /\ \A i \in 1..3 : IsBufferMut(i, FALSE)
            /\ log[4].op = "buffers_to_submit") =>
                /\ log[4].ok
                /\ log[4].ret = log[1].ret \o log[2].ret \o log[3].ret
                /\ \A i \in 1..3 :
                    /\ CountEv("begin", log[i].ret[1], 1, 4) = 1
                    /\ CountEv("finish", log[i].ret[1], 1, 4) = 1

C4_Witness ==
    /\ strategy = "AllocateNew"
    /\ Len(log) = 4
    /\ \A i \in 1..3 : IsBufferMut(i, FALSE)
    /\ log[4].op = "buffers_to_submit"
    /\ log[4].ok
    /\ Len(log[4].ret) = 3

\* ----------------------------------------------------------------- C5
\* C5: under AllocateNew, a completed buffer_mut(false) followed by two
\* buffer_mut(true) calls: both complete and return the buffer the first
\* call returned, still Recording, and neither finishes anything; a
\* buffers_to_submit that follows finishes that buffer, and it is the only
\* finish of the buffer over the four calls.
C5_InsidePassSameBuffer ==
    strategy = "AllocateNew" =>
        \A i \in 1..Len(log) :
            (/\ i + 2 <= Len(log)
             /\ IsBufferMut(i, FALSE) /\ log[i].ok
             /\ IsBufferMut(i + 1, TRUE)
             /\ IsBufferMut(i + 2, TRUE)) =>
                /\ \A j \in {i + 1, i + 2} :
                    /\ log[j].ok
                    /\ log[j].ret = log[i].ret
                    /\ log[j].idx = log[i].idx
                    /\ log[j].retst = <<"Recording">>
                    /\ log[j].ev = <<>>
                /\ (i + 3 <= Len(log) /\ log[i + 3].op = "buffers_to_submit") =>
                    /\ log[i + 3].ok
                    /\ log[i + 3].ev = <<Ev("finish", log[i].ret[1], "Recording")>>
                    /\ CountEv("finish", log[i].ret[1], i, i + 3) = 1

C5_Witness ==
    /\ strategy = "AllocateNew"
    /\ Len(log) = 4
    /\ IsBufferMut(1, FALSE) /\ IsBufferMut(2, TRUE) /\ IsBufferMut(3, TRUE)
    /\ log[4].op = "buffers_to_submit"
    /\ log[4].ok
    /\ log[3].ret = log[1].ret

\* ----------------------------------------------------------------- C6
\* C6: under UseOne, over any run of buffer_mut calls (inside or outside a
\* render pass) that starts on a new or just-reset pool, every call
\* completes and returns the same buffer, the one at index 0, and begin is
\* invoked exactly once over the run.
BufferMutRun(i, j) ==
    /\ 1 <= i /\ i <= j /\ j <= Len(log)
    /\ (i = 1 \/ log[i - 1].op = "reset")
    /\ \A k \in i..j : log[k].op = "buffer_mut"

C6_UseOneSameBufferOneBegin ==
    strategy = "UseOne" =>
        \A i \in 1..Len(log) : \A j \in i..Len(log) :
            BufferMutRun(i, j) =>
                /\ \A k \in i..j :
                    log[k].ok /\ log[k].idx = 0 /\ log[k].ret = log[i].ret
                /\ Cardinality({p \in (i..j) \X (1..3) :
                        /\ p[2] <= Len(log[p[1]].ev)
                        /\ log[p[1]].ev[p[2]].k = "begin"}) = 1
                /\ CountEv("begin", log[i].ret[1], i, j) = 1

C6_Witness ==
    /\ strategy = "UseOne"
    /\ Len(log) = 4
    /\ BufferMutRun(1, 4)
    /\ IsBufferMut(1, TRUE) /\ IsBufferMut(2, FALSE)
    /\ IsBufferMut(3, TRUE) /\ IsBufferMut(4, FALSE)
    /\ log[4].ret = log[1].ret

\* ----------------------------------------------------------------- C7
\* Some call among 1..i allocated a buffer.
AllocatedBefore(i) ==
    \E j \in 1..i : \E k \in 1..Len(log[j].ev) : log[j].ev[k].k = "alloc"

\* C7: with no detach, buffers_to_submit fails fatally exactly when no
\* buffer was ever allocated; it completes whenever one was.
C7_SubmitFailsIffNeverAllocated ==
    NoDetach =>
        \A i \in 1..Len(log) :
            log[i].op = "buffers_to_submit" =>
                (log[i].ok <=> AllocatedBefore(i - 1))

\* ----------------------------------------------------------------- C8
IsSorted(s) == \A i \in 1..Len(s) : \A j \in 1..Len(s) : i < j => s[i] < s[j]

SeqRange(s) == {s[i] : i \in 1..Len(s)}

\* What C8 says of the buffers_to_submit that has just completed.
SubmitReturn ==
    /\ IsSorted(Last.ret)
    /\ strategy = "UseOne" => Last.ret = command_buffers
    /\ strategy = "AllocateNew" =>
        /\ Last.ret = SubSeq(command_buffers, 1, next_id)
        /\ SeqRange(Last.ret) = Begun(LastReset(Len(log)) + 1, Len(log))

JustSubmitted == Len(log) >= 1 /\ Last.op = "buffers_to_submit" /\ Last.ok

\* C8: whenever buffers_to_submit completes it returns the buffers in
\* allocation order, the whole list under UseOne, and under AllocateNew the
\* prefix [0, next_id), which is exactly the buffers begun since the last
\* reset.
C8_SubmitReturnsPrefix == JustSubmitted => SubmitReturn

\* C8 on pools from which nothing was detached (it holds there): the
\* failures of C8 all go through remove_cmd_buffer, which shifts the list
\* under next_id.
C8_PrefixWithoutDetach == (JustSubmitted /\ NoDetach) => SubmitReturn

\* A completed submit under AllocateNew that leaves stale buffers out.
C8_StaleBuffersLeftOut ==
    /\ JustSubmitted /\ NoDetach
    /\ strategy = "AllocateNew"
    /\ Len(Last.ret) < Len(command_buffers)
\* ----------------------------------------------------------------- C9
\* The step is a DescriptorCpuPool::alloc_handle call / a lone-heap call.
PoolAllocated == Len(pool_log') = Len(pool_log) + 1

HeapAllocated == Len(heap_log') = Len(heap_log) + 1

AllHeapsFull == \A i \in 1..Len(heaps) : Heap_is_full(heaps[i])

\* C9: every pool alloc_handle completes and takes its handle from a heap
\* that was not full before the call (an existing heap with a free slot, or
\* a heap created by the call); it appends one heap if and only if every
\* existing heap was full, and otherwise none.
C9_PoolNeverUsesFullHeap ==
    [][PoolAllocated =>
        LET e == pool_log'[Len(pool_log')]
        IN /\ e.ok
           /\ e.heap_id < Len(heaps')
           /\ e.heap_id < Len(heaps) => ~Heap_is_full(heaps[e.heap_id + 1])
           /\ e.heap_id >= Len(heaps) => (e.heap_id = Len(heaps) /\ AllHeapsFull)
           /\ AllHeapsFull => Len(heaps') = Len(heaps) + 1
           /\ ~AllHeapsFull => Len(heaps') = Len(heaps)
    ]_vars

\* The 65th handle came from a second heap created because the first was
\* full, and the 66th from that same heap, which still had room.
C9_Witness ==
    /\ Len(pool_log) = HEAP_SIZE_FIXED + 2
    /\ Len(heaps) = 2
    /\ Heap_is_full(heaps[1])
    /\ pool_log[HEAP_SIZE_FIXED + 1].created
    /\ pool_log[HEAP_SIZE_FIXED + 1].heap_id = 1
    /\ ~pool_log[HEAP_SIZE_FIXED + 2].created
    /\ pool_log[HEAP_SIZE_FIXED + 2].heap_id = 1

\* ----------------------------------------------------------------- C10
\* C10: an allocation from the lone heap or from the pool returns a slot
\* whose bit was 1 (free) just before the call and is 0 (occupied) just
\* after, changes no other bit of any heap, and returns a (heap, slot) pair
\* that no earlier allocation returned.
C10_SlotIssuedOnce ==
    [][/\ HeapAllocated =>
            LET e == heap_log'[Len(heap_log')]
            IN e.ok =>
                /\ heap.availability[e.slot] = 1
                /\ heap'.availability = [heap.availability EXCEPT ![e.slot] = 0]
                /\ \A i \in 1..Len(heap_log) : heap_log[i].slot # e.slot
       /\ PoolAllocated =>
            LET e == pool_log'[Len(pool_log')]
                before == IF e.heap_id < Len(heaps)
                          THEN heaps[e.heap_id + 1].availability ELSE all_ones
            IN e.ok =>
                /\ before[e.slot] = 1
                /\ heaps'[e.heap_id + 1].availability = [before EXCEPT ![e.slot] = 0]
                /\ \A i \in 1..Len(heaps) : i # e.heap_id + 1 => heaps'[i] = heaps[i]
                /\ \A i \in 1..Len(pool_log) :
                    <<pool_log[i].heap_id, pool_log[i].slot>> # <<e.heap_id, e.slot>>
    ]_vars

\* The lone heap has issued several slots, and the pool has issued slot 0
\* of its second heap after slot 0 of its first.
C10_Witness ==
    /\ Len(heap_log) >= 2
    /\ heap_log[2].ok /\ heap.availability[heap_log[2].slot] = 0
    /\ Len(pool_log) = HEAP_SIZE_FIXED + 1
    /\ pool_log[1].heap_id = 0 /\ pool_log[1].slot = 0
    /\ pool_log[HEAP_SIZE_FIXED + 1].ok
    /\ pool_log[HEAP_SIZE_FIXED + 1].heap_id = 1
    /\ pool_log[HEAP_SIZE_FIXED + 1].slot = 0
\* ----------------------------------------------------------------- C11
\* Number of occupied slots of a free-list heap.
Occupied(h) == Cardinality({i \in DOMAIN h.availability : h.availability[i] = 0})

\* C11: for every k, once exactly 64*k + 1 alloc_handle calls were made on a
\* new pool, all of them completed, the pool holds k + 1 heaps, the first k
\* are full and the last has exactly one occupied slot.
C11_PoolHeapCount ==
    \A k \in 0..(MaxPoolAllocs \div HEAP_SIZE_FIXED) :
        Len(pool_log) = HEAP_SIZE_FIXED * k + 1 =>
            /\ \A i \in 1..Len(pool_log) : pool_log[i].ok
            /\ Len(heaps) = k + 1
            /\ \A i \in 1..k : Heap_is_full(heaps[i])
            /\ Occupied(heaps[k + 1]) = 1

C11_Witness ==
    /\ Len(pool_log) = HEAP_SIZE_FIXED * 2 + 1
    /\ Len(heaps) = 3
    /\ Occupied(heaps[3]) = 1

\* ----------------------------------------------------------------- C12
\* C12: on a new free-list heap the i-th alloc_handle call, i = 1..64,
\* completes and returns slot i - 1 at address start + handle_size * (i - 1);
\* is_full is false until the 64th call has been made and true from then on;
\* the 65th call fails fatally.
C12_HeapAscending ==
    /\ \A i \in 1..Len(heap_log) :
        IF i <= HEAP_SIZE_FIXED
        THEN /\ heap_log[i].ok
             /\ heap_log[i].slot = i - 1
             /\ heap_log[i].ptr = heap.start + heap.handle_size * (i - 1)
        ELSE ~heap_log[i].ok
    /\ Heap_is_full(heap) <=> Len(heap_log) >= HEAP_SIZE_FIXED
    /\ Len(heap_log) > HEAP_SIZE_FIXED => desc_fatal

C12_Witness ==
    /\ Len(heap_log) = HEAP_SIZE_FIXED + 1
    /\ heap_log[HEAP_SIZE_FIXED].ok
    /\ heap_log[HEAP_SIZE_FIXED].slot = HEAP_SIZE_FIXED - 1
    /\ ~heap_log[HEAP_SIZE_FIXED + 1].ok
    /\ desc_fatal

\* ----------------------------------------------------------------- C13
\* Position of the last clear among calls 1..i of the HeapLinear (0: none).
LinLastClear(i) ==
    LET cs == {j \in 1..i : lin_log[j].op = "clear"}
    IN IF cs = {} THEN 0 ELSE CHOOSE j \in cs : \A k \in cs : k <= j

\* Handles issued by calls 1..i since the last clear among them.
LinCount(i) ==
    Cardinality({j \in (LinLastClear(i) + 1)..i :
        lin_log[j].op = "alloc_handle" /\ lin_log[j].ok})

\* C13: on a HeapLinear of capacity C (0 included) an alloc_handle call
\* completes exactly when fewer than C handles were issued since the last
\* clear (or construction), so C consecutive calls complete and the next
\* fails fatally; the call after n issued handles returns start +
\* handle_size * n; is_full holds exactly when the issued count is >= C; the
\* first allocation after a clear returns the address of the very first one.
C13_BumpAllocator ==
    /\ \A i \in 1..Len(lin_log) :
        /\ lin_log[i].full <=> (LinCount(i) >= lin.size)
        /\ lin_log[i].op = "alloc_handle" =>
            LET n == LinCount(i - 1)
            IN /\ lin_log[i].ok <=> n < lin.size
               /\ lin_log[i].ok =>
                    /\ lin_log[i].slot = n
                    /\ lin_log[i].ptr = lin.start + lin.handle_size * n
               /\ (lin_log[i].ok /\ i > 1 /\ lin_log[i - 1].op = "clear") =>
                    \A j \in 1..(i - 1) :
                        (lin_log[j].op = "alloc_handle" /\ LinCount(j - 1) = 0) =>
                            lin_log[j].ptr = lin_log[i].ptr
    /\ lin.num = LinCount(Len(lin_log))
    /\ lin_fatal <=> (Len(lin_log) >= 1 /\ ~lin_log[Len(lin_log)].ok)

\* Capacity 2: two handles, a clear, two handles again at the same
\* addresses, and a third call that fails.
C13_Witness ==
    /\ lin.size = 2
    /\ Len(lin_log) = 6
    /\ lin_log[1].ok /\ lin_log[2].ok
    /\ lin_log[3].op = "clear"
    /\ lin_log[4].ok /\ lin_log[4].ptr = lin_log[1].ptr
    /\ lin_log[5].ok /\ lin_log[5].ptr = lin_log[2].ptr
    /\ lin_log[6].op = "alloc_handle" /\ ~lin_log[6].ok
\* ----------------------------------------------------------------- C14
\* The step is a CommandPool call of the given name.
CmdStep(op) == Len(log') = Len(log) + 1 /\ log'[Len(log')].op = op

\* C14 as stated: no operation other than destroy, remove_cmd_buffer
\* included, decreases the number of heaps of the heap pool or the number of
\* command buffers of the command-buffer pool.
C14_Original ==
    [][~CmdStep("destroy") =>
        /\ Len(heaps') >= Len(heaps)
        /\ Len(command_buffers') >= Len(command_buffers)]_vars

\* C14 amended: the number of heaps never decreases; the number of command
\* buffers in the pool's list never decreases except by remove_cmd_buffer,
\* which takes exactly one buffer out of the list and hands it to the caller,
\* until return_cmd_buffer puts one back, and by destroy, which drops the
\* list; no buffer is invalidated by any operation other than destroy, which
\* invalidates them all.
C14_NeverShrinks ==
    [][/\ Len(heaps') >= Len(heaps)
       /\ (~CmdStep("remove_cmd_buffer") /\ ~CmdStep("destroy")) =>
            Len(command_buffers') >= Len(command_buffers)
       /\ ~CmdStep("destroy") =>
            \A b \in 1..Len(cb_state') : cb_state'[b] # "Invalid"
       /\ CmdStep("destroy") =>
            /\ command_buffers' = <<>>
            /\ lent' = lent
            /\ \A b \in 1..Len(cb_state') : cb_state'[b] = "Invalid"
       /\ (CmdStep("remove_cmd_buffer") /\ ~fatal') =>
            /\ Len(command_buffers') = Len(command_buffers) - 1
            /\ Len(lent') = Len(lent) + 1
       /\ CmdStep("return_cmd_buffer") =>
            /\ Len(command_buffers') = Len(command_buffers) + 1
            /\ Len(lent') = Len(lent) - 1
       /\ ~CmdStep("destroy") =>
            Len(command_buffers') + Len(lent') >= Len(command_buffers) + Len(lent)
       /\ Len(cb_state') >= Len(cb_state)]_vars

\* A pool of two buffers whose first buffer was detached and put back after
\* a reset and a submit-free period.
C14_Witness ==
    /\ Len(log) >= 4
    /\ Last.op = "return_cmd_buffer"
    /\ Len(command_buffers) = 2
    /\ \E i \in 1..Len(log) : log[i].op = "remove_cmd_buffer" /\ log[i].ok
    /\ \E i \in 1..Len(log) : log[i].op = "reset"
\* ----------------------------------------------------------------- C15
\* Effects of kind k in a call record.
EvOfKind(e, k) == {j \in 1..Len(e.ev) : e.ev[j].k = k}

\* C15: reset sets next_id to 0 and begin to true and leaves the buffer list
\* and the strategy unchanged (it begins, finishes and allocates nothing).
\* The buffer_mut that follows a reset completes and returns the buffer at
\* index 0, having begun it exactly once, finished nothing, and allocated a
\* buffer only if the list was empty: under UseOne for either argument, under
\* AllocateNew for buffer_mut(false).
C15_ResetRearms ==
    [][/\ CmdStep("reset") =>
            /\ next_id' = 0
            /\ begin' = TRUE
            /\ command_buffers' = command_buffers
            /\ strategy' = strategy
            /\ log'[Len(log')].ev = <<>>
       /\ (/\ Len(log) >= 1 /\ Last.op = "reset"
           /\ CmdStep("buffer_mut")
           /\ (strategy = "UseOne" \/ ~log'[Len(log')].inside)) =>
            LET e == log'[Len(log')]
            IN /\ e.ok
               /\ e.idx = 0
               /\ e.ret = <<command_buffers'[1]>>
               /\ Cardinality(EvOfKind(e, "begin")) = 1
               /\ \A j \in EvOfKind(e, "begin") : e.ev[j].b = e.ret[1]
               /\ EvOfKind(e, "finish") = {}
               /\ (EvOfKind(e, "alloc") # {}) <=> (Len(command_buffers) = 0)
               /\ Len(command_buffers) > 0 => command_buffers' = command_buffers
    ]_vars

\* A reset of a pool that holds two used buffers, followed by a
\* buffer_mut(false) that begins buffer 0 again.
C15_Witness ==
    /\ Len(log) >= 4
    /\ log[Len(log) - 1].op = "reset"
    /\ Last.op = "buffer_mut" /\ ~Last.inside /\ Last.ok
    /\ Len(command_buffers) = 2
    /\ Last.ev = <<Ev("begin", command_buffers[1], "NotBegun")>>
\* ----------------------------------------------------------------- C16
\* C16: let the first n calls on a new pool be buffer_mut calls that all
\* completed (the sequence S), followed by buffers_to_submit and reset.  Then
\* the submit completed, and as long as the calls after the reset repeat S
\* (same inside_render_pass arguments), each completes and returns the same
\* buffer index, and the same buffer, as the call of S at its position.
\* Likewise a HeapLinear that issued n handles and was cleared issues the
\* same slots and addresses again, call for call.
C16_ReplayIsDeterministic ==
    /\ \A n \in 1..MaxReplayOps :
        (/\ Len(log) >= n + 2
         /\ \A i \in 1..n : log[i].op = "buffer_mut" /\ log[i].ok
         /\ log[n + 1].op = "buffers_to_submit"
         /\ log[n + 2].op = "reset") =>
            /\ log[n + 1].ok
            /\ \A i \in 1..n :
                (/\ Len(log) >= n + 2 + i
                 /\ \A j \in 1..i : /\ log[n + 2 + j].op = "buffer_mut"
                                    /\ log[n + 2 + j].inside = log[j].inside) =>
                    /\ log[n + 2 + i].ok
                    /\ log[n + 2 + i].idx = log[i].idx
                    /\ log[n + 2 + i].ret = log[i].ret
    /\ \A n \in 1..MaxLinearOps :
        (/\ Len(lin_log) >= n + 1
         /\ \A i \in 1..n : lin_log[i].op = "alloc_handle" /\ lin_log[i].ok
         /\ lin_log[n + 1].op = "clear") =>
            \A i \in 1..n :
                (/\ Len(lin_log) >= n + 1 + i
                 /\ \A j \in 1..i : lin_log[n + 1 + j].op = "alloc_handle") =>
                    /\ lin_log[n + 1 + i].ok
                    /\ lin_log[n + 1 + i].slot = lin_log[i].slot
                    /\ lin_log[n + 1 + i].ptr = lin_log[i].ptr

\* S = outside, inside, outside under AllocateNew, replayed in full.
C16_Witness ==
    /\ strategy = "AllocateNew"
    /\ Len(log) = 8
    /\ IsBufferMut(1, FALSE) /\ IsBufferMut(2, TRUE) /\ IsBufferMut(3, FALSE)
    /\ log[4].op = "buffers_to_submit" /\ log[5].op = "reset"
    /\ IsBufferMut(6, FALSE) /\ IsBufferMut(7, TRUE) /\ IsBufferMut(8, FALSE)
    /\ log[8].ok /\ log[8].idx = 1
\* ----------------------------------------------------------------- C17
\* C17: create_command_buffer completes, leaves at least one buffer in the
\* list, begins and finishes nothing and changes neither next_id nor begin
\* nor the state of any buffer; it allocates exactly one buffer when the
\* list is empty and changes nothing at all otherwise.
C17_PrewarmAllocatesOnce ==
    [][CmdStep("create_command_buffer") =>
        LET e == log'[Len(log')]
        IN /\ e.ok
           /\ Len(command_buffers') >= 1
           /\ EvOfKind(e, "begin") = {} /\ EvOfKind(e, "finish") = {}
           /\ next_id' = next_id /\ begin' = begin
           /\ \A b \in 1..Len(cb_state) : cb_state'[b] = cb_state[b]
           /\ Len(command_buffers) = 0 =>
                /\ Len(cb_state') = Len(cb_state) + 1
                /\ command_buffers' = <<Len(cb_state')>>
                /\ cb_state'[Len(cb_state')] = "NotBegun"
                /\ e.ev = <<Ev("alloc", Len(cb_state'), "Unallocated")>>
           /\ Len(command_buffers) > 0 =>
                /\ command_buffers' = command_buffers
                /\ cb_state' = cb_state
                /\ e.ev = <<>>
    ]_vars

\* Two pre-warms in a row on a new pool: one buffer, never begun.
C17_Witness ==
    /\ Len(log) = 2
    /\ log[1].op = "create_command_buffer" /\ log[2].op = "create_command_buffer"
    /\ Len(command_buffers) = 1
    /\ cb_state = <<"NotBegun">>
    /\ log[2].ev = <<>>

\* ----------------------------------------------------------------- C18
\* A buffer is detached while call i is made.
LentDuring(i) ==
    Cardinality({j \in 1..(i - 1) : log[j].op = "remove_cmd_buffer" /\ log[j].ok})
        > Cardinality({j \in 1..(i - 1) : log[j].op = "return_cmd_buffer"})

\* C18, its last part: under AllocateNew a buffer_mut or buffers_to_submit
\* call made between a detach and the reinsert begins only buffers that are
\* not Recording and finishes only buffers that are Recording.  Stated for
\* behaviours without an earlier buffers_to_submit, in which every finish
\* and begin is well placed as long as nothing is detached.
C18_DetachKeepsLifecycle ==
    strategy = "AllocateNew" =>
        \A i \in 1..Len(log) :
            (/\ LentDuring(i)
             /\ log[i].op \in {"buffer_mut", "buffers_to_submit"}
             /\ \A j \in 1..(i - 1) : log[j].op # "buffers_to_submit") =>
                \A j \in 1..Len(log[i].ev) :
                    /\ log[i].ev[j].k = "finish" => log[i].ev[j].pre = "Recording"
                    /\ log[i].ev[j].k = "begin" => log[i].ev[j].pre # "Recording"

\* C18, its first parts (they hold): remove_cmd_buffer fails fatally exactly
\* on an empty list; a return_cmd_buffer that directly follows a
\* remove_cmd_buffer and gives back the buffer it took restores the list as
\* it was before the two calls; neither call changes next_id or begin.
C18_RoundTrip ==
    [][/\ CmdStep("remove_cmd_buffer") =>
            /\ fatal' <=> Len(command_buffers) = 0
            /\ ~fatal' => command_buffers = <<log'[Len(log')].ret[1]>> \o command_buffers'
            /\ next_id' = next_id /\ begin' = begin
       /\ (CmdStep("return_cmd_buffer") /\ Last.op = "remove_cmd_buffer"
            /\ log'[Len(log')].ret = Last.ret) =>
            /\ command_buffers' = <<Last.ret[1]>> \o command_buffers
            /\ next_id' = next_id /\ begin' = begin
    ]_vars

\* The same lifecycle property with nothing detached and no earlier submit.
C18_LifecycleWithoutDetach ==
    (strategy = "AllocateNew" /\ NoDetach) =>
        \A i \in 1..Len(log) :
            (/\ log[i].op \in {"buffer_mut", "buffers_to_submit"}
             /\ \A j \in 1..(i - 1) : log[j].op # "buffers_to_submit") =>
                \A j \in 1..Len(log[i].ev) :
                    /\ log[i].ev[j].k = "finish" => log[i].ev[j].pre = "Recording"
                    /\ log[i].ev[j].k = "begin" => log[i].ev[j].pre # "Recording"

\* ----------------------------------------------------------------- C19
\* Kind and buffer of each effect of a call, in program order.
EvKB(e) == [j \in 1..Len(e.ev) |-> <<e.ev[j].k, e.ev[j].b>>]

\* The effects C19 lists for a buffer_mut(false) step made with next_id = c:
\* in this order, finish of the buffer at index c - 1 if c > 0 (nothing if
\* c = 0), allocation if and only if the list had no index c, begin of the
\* buffer at index c, which is returned; next_id is then c + 1.
OutsidePassEffects ==
    LET e == log'[Len(log')]
        c == next_id
    IN /\ next_id' = c + 1
       /\ e.idx = c
       /\ e.ret = <<command_buffers'[c + 1]>>
       /\ EvKB(e) =
            (IF c > 0 THEN << <<"finish", command_buffers[c]>> >> ELSE <<>>)
            \o (IF Len(command_buffers) <= c
                THEN << <<"alloc", Len(cb_state) + 1>> >> ELSE <<>>)
            \o << <<"begin", command_buffers'[c + 1]>> >>
       /\ Len(command_buffers) > c => command_buffers' = command_buffers

\* The step is a buffer_mut(false) under AllocateNew.
OutsidePassStep ==
    /\ CmdStep("buffer_mut")
    /\ strategy = "AllocateNew"
    /\ ~log'[Len(log')].inside

\* C19: under AllocateNew every buffer_mut(false) call made with
\* next_id = c completes and has, in this order, finished the buffer at
\* index c - 1 if c > 0, allocated a buffer only if the list had no index
\* c, and begun the buffer at index c; next_id is then c + 1.
C19_OutsidePassStep ==
    [][OutsidePassStep =>
        (log'[Len(log')].ok /\ OutsidePassEffects)]_vars

\* C19 on pools from which nothing was detached (it holds there), and the
\* effects of every call that completes, detach or not.
C19_OutsidePassStepWithoutDetach ==
    [][OutsidePassStep =>
        /\ NoDetach => log'[Len(log')].ok
        /\ log'[Len(log')].ok => OutsidePassEffects]_vars

\* A third outside-pass call in a period that reuses the buffers of an
\* earlier one: finish of buffer 0's successor, no allocation, begin.
C19_ReusePeriod ==
    /\ strategy = "AllocateNew" /\ NoDetach
    /\ Len(log) >= 2
    /\ IsBufferMut(Len(log), FALSE) /\ Last.ok
    /\ Len(Last.ev) = 2
    /\ Last.ev[1].k = "finish" /\ Last.ev[1].pre = "Recording"
    /\ Last.ev[2].k = "begin"
    /\ next_id = 2

\* ----------------------------------------------------------------- C20
\* The buffer of the most recent begin made by any call so far.
LastBegun ==
    LET is == {i \in 1..Len(log) : EvOfKind(log[i], "begin") # {}}
        i == CHOOSE k \in is : \A m \in is : m <= k
        j == CHOOSE k \in EvOfKind(log[i], "begin") : TRUE
    IN log[i].ev[j].b

\* The step is a buffer_mut(true) under AllocateNew with next_id >= 1.
InsidePassStep ==
    /\ CmdStep("buffer_mut")
    /\ strategy = "AllocateNew"
    /\ log'[Len(log')].inside
    /\ next_id >= 1

\* The step changes nothing in the pool and returns the buffer at index
\* next_id - 1, the one most recently begun.
InsidePassNoChange ==
    LET e == log'[Len(log')]
    IN /\ e.ok
       /\ e.ev = <<>>
       /\ next_id' = next_id /\ begin' = begin
       /\ command_buffers' = command_buffers
       /\ cb_state' = cb_state
       /\ e.idx = next_id - 1
       /\ e.ret = <<command_buffers[next_id]>>
       /\ e.ret = <<LastBegun>>

\* C20: under AllocateNew every buffer_mut(true) call made with
\* next_id >= 1 completes, changes nothing in the pool (cursor, list, every
\* buffer's state, begin flag; no begin, finish or allocation) and returns
\* the buffer at index next_id - 1, the one most recently begun.
C20_InsidePassChangesNothing == [][InsidePassStep => InsidePassNoChange]_vars

\* C20 on pools from which nothing was detached (it holds there).
C20_NoChangeWithoutDetach ==
    [][(InsidePassStep /\ NoDetach) => InsidePassNoChange]_vars

\* An inside-pass call after two outside-pass calls returns buffer 1.
C20_AfterTwoOutsideCalls ==
    /\ strategy = "AllocateNew" /\ NoDetach
    /\ Len(log) = 3
    /\ IsBufferMut(1, FALSE) /\ IsBufferMut(2, FALSE) /\ IsBufferMut(3, TRUE)
    /\ Last.ok /\ Last.idx = 1 /\ Last.ret = log[2].ret
    /\ Last.retst = <<"Recording">>
\* ----------------------------------------------------------------- C21
\* The indices (0-based) of the pool's heaps that are not full.
HeapsWithRoom == {i \in 0..(Len(heaps) - 1) : ~Heap_is_full(heaps[i + 1])}

\* C21: after every DescriptorCpuPool::alloc_handle, free_list holds index
\* i exactly when heap i exists and is not full; free_list never holds more
\* than one index, and every heap except possibly the last one is full.
C21_FreeListIsExact ==
    /\ free_list = HeapsWithRoom
    /\ Cardinality(free_list) <= 1
    /\ \A i \in 1..(Len(heaps) - 1) : Heap_is_full(heaps[i])
    /\ \A i \in 1..Len(pool_log) : pool_log[i].ok

\* After the 64th handle the set is empty although a heap exists.
C21_Witness ==
    /\ Len(pool_log) = HEAP_SIZE_FIXED
    /\ Len(heaps) = 1
    /\ Heap_is_full(heaps[1])
    /\ free_list = {}

\* ----------------------------------------------------------------- C22
\* The step is a HeapLinear::alloc_handle call.
LinearAllocated ==
    /\ Len(lin_log') = Len(lin_log) + 1
    /\ lin_log'[Len(lin_log')].op = "alloc_handle"

\* No slot of the occupancy mask is free.
MaskIsZero(h) == \A i \in 0..(U64_BITS - 1) : h.availability[i] = 0

\* C22: alloc_handle on a full HeapLinear fails fatally and leaves the heap,
\* its allocated count included, as it was; alloc_handle on a Heap whose
\* mask is 0 fails fatally and leaves the heap, its mask included, as it
\* was; a call on a heap that is not full completes; and the HeapLinear
\* always has 0 <= num <= size.
C22_FailureLeavesStateUntouched ==
    [][/\ LinearAllocated =>
            /\ (lin.num >= lin.size) => (lin_fatal' /\ lin' = lin)
            /\ (lin.num < lin.size) => (~lin_fatal' /\ lin'.num = lin.num + 1)
       /\ HeapAllocated =>
            /\ MaskIsZero(heap) => (desc_fatal' /\ heap' = heap)
            /\ ~MaskIsZero(heap) => (~desc_fatal' /\ heap' # heap)
       /\ 0 <= lin.num /\ lin.num <= lin.size
       /\ 0 <= lin'.num /\ lin'.num <= lin'.size
    ]_vars

\* A HeapLinear of capacity 2 was filled and a third call failed: the count
\* is still 2.
C22_Witness ==
    /\ lin.size = 2
    /\ lin_fatal
    /\ lin.num = 2
    /\ Len(lin_log) >= 3
    /\ ~lin_log[Len(lin_log)].ok
\* ----------------------------------------------------------------- C23
\* The calls of the log that allocated a buffer.
Allocating == {i \in 1..Len(log) : EvOfKind(log[i], "alloc") # {}}

\* C23: under UseOne, with no detach/reinsert and until destroy, the pool
\* owns at most one buffer and at most one was ever allocated; a call allocates exactly when
\* it is the first buffer_mut or create_command_buffer call of the pool.
C23_UseOneOwnsOneBuffer ==
    (strategy = "UseOne" /\ NoDetach /\ ~destroyed) =>
        /\ Len(command_buffers) <= 1
        /\ Len(cb_state) = Len(command_buffers)
        /\ \A i \in 1..Len(log) :
            (i \in Allocating) <=>
                /\ log[i].op \in {"buffer_mut", "create_command_buffer"}
                /\ \A j \in 1..(i - 1) :
                    log[j].op \notin {"buffer_mut", "create_command_buffer"}
        /\ \A i \in Allocating : Len(log[i].ev) >= 1 /\ log[i].ev[1].k = "alloc"
                /\ Cardinality(EvOfKind(log[i], "alloc")) = 1

\* Pre-warm, record, submit, reset, record again: still the one buffer.
C23_Witness ==
    /\ strategy = "UseOne" /\ NoDetach
    /\ Len(log) = 5
    /\ log[1].op = "create_command_buffer"
    /\ log[2].op = "buffer_mut"
    /\ log[3].op = "buffers_to_submit"
    /\ log[4].op = "reset"
    /\ log[5].op = "buffer_mut" /\ log[5].ok
    /\ command_buffers = <<1>>
    /\ Allocating = {1}

\* ----------------------------------------------------------------- C24
\* The cursor lies within the list.
CursorInBounds(nid, cbs) == 0 <= nid /\ nid <= Len(cbs)

\* C24: under AllocateNew, with no detach/reinsert and until destroy,
\* 0 <= next_id <= number of owned buffers in every state; and a buffer_mut or buffers_to_submit
\* call made with next_id >= 1 completes, every index it dereferences being
\* in bounds: next_id - 1 for the buffer it finishes or returns, next_id
\* (after the optional allocation) for the buffer it begins.
C24_CursorInBounds ==
    [][(strategy = "AllocateNew" /\ NoDetach' /\ ~destroyed') =>
        /\ CursorInBounds(next_id, command_buffers)
        /\ CursorInBounds(next_id', command_buffers')
        /\ (next_id >= 1 /\ CmdStep("buffers_to_submit")) =>
            LET e == log'[Len(log')]
            IN /\ e.ok /\ ~fatal'
               /\ EvKB(e) = << <<"finish", command_buffers[next_id]>> >>
               /\ Len(e.ret) = next_id
        /\ (next_id >= 1 /\ CmdStep("buffer_mut")) =>
            LET e == log'[Len(log')]
            IN /\ e.ok /\ ~fatal'
               /\ e.inside =>
                    /\ e.idx = next_id - 1
                    /\ e.ret = <<command_buffers[next_id]>>
               /\ ~e.inside =>
                    /\ e.idx = next_id
                    /\ next_id < Len(command_buffers')
                    /\ e.ret = <<command_buffers'[next_id + 1]>>
                    /\ EvKB(e)[1] = <<"finish", command_buffers[next_id]>>
    ]_vars

\* After a reset the cursor is below the number of owned buffers, and the
\* submit of the new period dereferences index 0.
C24_Witness ==
    /\ strategy = "AllocateNew" /\ NoDetach
    /\ Len(log) = 5
    /\ IsBufferMut(1, FALSE) /\ IsBufferMut(2, FALSE)
    /\ log[3].op = "reset"
    /\ IsBufferMut(4, FALSE)
    /\ log[5].op = "buffers_to_submit" /\ log[5].ok
    /\ next_id = 1 /\ Len(command_buffers) = 2

\* ----------------------------------------------------------------- C25
\* Positions (1-based) of the owned buffers that are Recording.
RecordingAt ==
    {i \in 1..Len(command_buffers) : cb_state[command_buffers[i]] = "Recording"}

\* C25: under AllocateNew, with no detach/reinsert, at most one owned
\* buffer is Recording, and a Recording buffer is the one at index
\* next_id - 1; every begin was made on a buffer that was neither Recording
\* nor Finished.
C25_OneRecordingBuffer ==
    (strategy = "AllocateNew" /\ NoDetach) =>
        /\ Cardinality(RecordingAt) <= 1
        /\ RecordingAt \subseteq {next_id}
        /\ \A i \in 1..Len(log) : \A j \in EvOfKind(log[i], "begin") :
                log[i].ev[j].pre = "NotBegun"

\* A second period reuses both buffers: the first is Finished again, the
\* second is the one Recording.
C25_Witness ==
    /\ strategy = "AllocateNew" /\ NoDetach
    /\ Len(log) = 5
    /\ IsBufferMut(1, FALSE) /\ IsBufferMut(2, FALSE)
    /\ log[3].op = "reset"
    /\ IsBufferMut(4, FALSE) /\ IsBufferMut(5, FALSE)
    /\ next_id = 2
    /\ cb_state = <<"Finished", "Recording">>
    /\ RecordingAt = {2}
====
